---- MODULE Spec2Model ----
(***************************************************************************)
(* A model of src/main.rs: five repository functions over one database     *)
(* connection (create_user, read_users, read_user_by_id, update_user_age,  *)
(* delete_user), the background task that drives the connection, and the   *)
(* demo sequence of main.                                                  *)
(*                                                                         *)
(* The database is the `users` table: a set of rows with a primary key id  *)
(* taken from a serial sequence.  Each repository function sends one       *)
(* statement, awaits the reply and maps it to its return value.            *)
(*                                                                         *)
(* Two specifications share the state and the functions:                   *)
(*   Spec      main's demo sequence, from any seeded table;                *)
(*   SpecRepo  a caller that invokes the five functions with any           *)
(*             arguments, one call at a time, from any seeded table.       *)
(***************************************************************************)
EXTENDS Integers, Sequences, FiniteSets, TLC

\* ------------------------------------------------------------------ bounds

\* Seeded rows have ids in 1..MaxId.  The id sequence starts at 1 (rows seeded
\* with explicit ids) or at MaxId+1 (past every seeded id).
MaxId == 2
\* The free caller of SpecRepo makes at most MaxCalls calls.
MaxCalls == 2

\* ------------------------------------------------------- program constants

DemoName == "Htet Lin Maung"
DemoAge == 27
DemoId == 1
DemoNewAge == 31

SeedName == "Alice"
Names == {SeedName, DemoName}
Ages == {DemoAge, DemoNewAge}
SeedIds == 1..MaxId

VARIABLES
    users,      \* the table: a set of rows [id, name, age], ids unique
    seq,        \* the next value of the id sequence
    driver,     \* the connection task: "unspawned", "running", "failed"
    requests,   \* the requests sent on the client and not yet returned
    pc,         \* the position of main (or "repo" for the free caller)
    hist,       \* the completed calls with their results, latest last
    pre,        \* the table when the last call was issued
    log,        \* main's issue / return events, in order
    stdout,     \* the lines printed by println!
    stderr,     \* the lines printed by eprint! and by main's Err return
    exit,       \* "running", "exit0", "exit1"
    users0      \* the table at start

vars == <<users, seq, driver, requests, pc, hist, pre, log, stdout, stderr,
          exit, users0>>

\* ------------------------------------------------------------------ values

Row(i, n, a) == [id |-> i, name |-> n, age |-> a]

IdsOf(t) == {r.id : r \in t}

\* The seeded tables: every id of SeedIds is absent or names one row.
Tables ==
    {t \in SUBSET {Row(i, SeedName, a) : i \in SeedIds, a \in Ages} :
        \A r1, r2 \in t : r1.id = r2.id => r1 = r2}

\* The orders in which a query may return the rows of a set.
Orders(S) ==
    {s \in [1..Cardinality(S) -> S] :
        \A i, j \in 1..Cardinality(S) : i # j => s[i] # s[j]}

Range(s) == {s[i] : i \in 1..Len(s)}

\* A reply of the server: a row count, a row sequence, or an error.
Reply(k, n, rs) == [kind |-> k, n |-> n, rows |-> rs]
NoReply == Reply("none", 0, <<>>)

\* The arguments of a repository call; 0 and "" stand for "not a parameter".
Args(i, n, a) == [id |-> i, name |-> n, age |-> a]

\* A request: the function awaiting it and its arguments, the statement with
\* its text and integer parameters in positional order, and the server's
\* progress on it.
Req(op, args, stmt, text, ints) ==
    [op |-> op, args |-> args, stmt |-> stmt, text |-> text, ints |-> ints,
     st |-> "sent", reply |-> NoReply]

\* What a repository function returns: Ok(val) or Err(err).
Ok(v) == [status |-> "Ok", err |-> "none", val |-> v]
Err(e) == [status |-> "Err", err |-> e, val |-> <<>>]

\* -------------------------------------------------------------- statements
\* Each takes the table, the sequence and the parameters and gives the set
\* of possible [users, seq, reply].

\* insert into users (name, age) values ($1, $2)
InsertStmt(t, s, p1, p2) ==
    IF s \in IdsOf(t)
    THEN {[users |-> t, seq |-> s + 1, reply |-> Reply("error", 0, <<>>)]}
    ELSE {[users |-> t \cup {Row(s, p1, p2)}, seq |-> s + 1,
           reply |-> Reply("count", 1, <<>>)]}

\* select id, name, age from users
SelectAllStmt(t, s) ==
    {[users |-> t, seq |-> s, reply |-> Reply("rows", 0, o)] : o \in Orders(t)}

\* select id, name, age from users where id = $1
SelectByIdStmt(t, s, p1) ==
    {[users |-> t, seq |-> s, reply |-> Reply("rows", 0, o)] :
        o \in Orders({r \in t : r.id = p1})}

\* update users set age = $1 where id = $2
UpdateStmt(t, s, p1, p2) ==
    {[users |-> {IF r.id = p2 THEN Row(r.id, r.name, p1) ELSE r : r \in t},
      seq |-> s,
      reply |-> Reply("count", Cardinality({r \in t : r.id = p2}), <<>>)]}

\* Variant: the delete without its where clause.
DeleteStmtNoWhere(t, s, p1) ==
    {[users |-> {}, seq |-> s, reply |-> Reply("count", Cardinality(t), <<>>)]}

\* delete from users where id = $1
DeleteStmt(t, s, p1) ==
    {[users |-> {r \in t : r.id # p1}, seq |-> s,
      reply |-> Reply("count", Cardinality({r \in t : r.id = p1}), <<>>)]}

Execute(r, t, s) ==
    CASE r.stmt = "insert" -> InsertStmt(t, s, r.text[1], r.ints[1])
      [] r.stmt = "select_all" -> SelectAllStmt(t, s)
      [] r.stmt = "select_by_id" -> SelectByIdStmt(t, s, r.ints[1])
      [] r.stmt = "update" -> UpdateStmt(t, s, r.ints[1], r.ints[2])
      [] r.stmt = "delete" -> DeleteStmt(t, s, r.ints[1])

\* ---------------------------------------------------- repository functions
\* f_req: the statement f sends; f_ret: f's return value for a reply.

create_user_req(name, age) ==
    Req("create_user", Args(0, name, age), "insert", <<name>>, <<age>>)

\* Variant: the error of the insert is dropped instead of returned.
create_user_ret_swallow(reply) == Ok(<<>>)

create_user_ret(reply) ==
    IF reply.kind = "error" THEN Err("db") ELSE Ok(<<>>)

read_users_req == Req("read_users", Args(0, "", 0), "select_all", <<>>, <<>>)

read_users_ret(reply) ==
    IF reply.kind = "error" THEN Err("db") ELSE Ok(reply.rows)

read_user_by_id_req(id) ==
    Req("read_user_by_id", Args(id, "", 0), "select_by_id", <<>>, <<id>>)

\* Variant: an empty result is an error (the query expects one row).
read_user_by_id_ret_one(reply) ==
    IF reply.kind = "error" \/ reply.rows = <<>> THEN Err("db")
    ELSE Ok(<<Row(reply.rows[1].id, reply.rows[1].name, reply.rows[1].age)>>)

\* None is <<>>, Some(t) is <<t>>: the first row, decoded column by column.
read_user_by_id_ret(reply) ==
    IF reply.kind = "error" THEN Err("db")
    ELSE IF reply.rows = <<>> THEN Ok(<<>>)
    ELSE Ok(<<Row(reply.rows[1].id, reply.rows[1].name, reply.rows[1].age)>>)

\* Variant: the two parameters bound in the wrong order.
update_user_age_req_swapped(id, new_age) ==
    Req("update_user_age", Args(id, "", new_age), "update", <<>>,
        <<id, new_age>>)

update_user_age_req(id, new_age) ==
    Req("update_user_age", Args(id, "", new_age), "update", <<>>,
        <<new_age, id>>)

\* Variant: zero rows affected is an error.
update_user_age_ret_strict(reply) ==
    IF reply.kind = "error" \/ reply.n = 0 THEN Err("db") ELSE Ok(<<>>)

update_user_age_ret(reply) ==
    IF reply.kind = "error" THEN Err("db") ELSE Ok(<<>>)

delete_user_req(id) ==
    Req("delete_user", Args(id, "", 0), "delete", <<>>, <<id>>)

\* Variant: zero rows affected is an error.
delete_user_ret_strict(reply) ==
    IF reply.kind = "error" \/ reply.n = 0 THEN Err("db") ELSE Ok(<<>>)

delete_user_ret(reply) ==
    IF reply.kind = "error" THEN Err("db") ELSE Ok(<<>>)

Ret(op, reply) ==
    CASE op = "create_user" -> create_user_ret(reply)
      [] op = "read_users" -> read_users_ret(reply)
      [] op = "read_user_by_id" -> read_user_by_id_ret(reply)
      [] op = "update_user_age" -> update_user_age_ret(reply)
      [] op = "delete_user" -> delete_user_ret(reply)

\* What the await of request r can resolve to now: the mapped reply once the
\* running driver has it, a closed-connection error once the driver is gone.
Outcome(r) ==
    IF driver = "failed" THEN {Err("closed")}
    ELSE IF r.st = "done" THEN {Ret(r.op, r.reply)}
    ELSE {}

\* The record of a completed call.
Call(r, out) ==
    [op |-> r.op, args |-> r.args, status |-> out.status, err |-> out.err,
     val |-> out.val, pre |-> pre, post |-> users]

\* ------------------------------------------------------------ shared steps

\* client.execute / client.query: the request goes to the connection.
Issue(req) ==
    /\ requests' = requests \cup {req}
    /\ pre' = users

\* The running driver transmits a request and the server executes it.
Exec ==
    /\ driver = "running"
    /\ exit = "running"
    /\ \E r \in requests :
        /\ r.st = "sent"
        /\ \E res \in Execute(r, users, seq) :
            /\ users' = res.users
            /\ seq' = res.seq
            /\ requests' = (requests \ {r}) \cup
                   {[r EXCEPT !.st = "done", !.reply = res.reply]}
    /\ UNCHANGED <<driver, pc, hist, pre, log, stdout, stderr, exit, users0>>

\* Variant: the spawned task ends the process when the connection fails.
DriverFailAbort ==
    /\ driver = "running"
    /\ exit = "running"
    /\ driver' = "failed"
    /\ stderr' = Append(stderr, "connection error")
    /\ exit' = "exit1"
    /\ UNCHANGED <<users, seq, requests, pc, hist, pre, log, stdout, users0>>

\* The spawned task: connection.await ends in Err, which is printed.
DriverFail ==
    /\ driver = "running"
    /\ exit = "running"
    /\ driver' = "failed"
    /\ stderr' = Append(stderr, "connection error")
    /\ UNCHANGED <<users, seq, requests, pc, hist, pre, log, stdout, exit,
                   users0>>

\* -------------------------------------------------------------------- main

ConnectOk ==
    /\ pc = "connect"
    /\ pc' = "spawn"
    /\ UNCHANGED <<users, seq, driver, requests, hist, pre, log, stdout,
                   stderr, exit, users0>>

ConnectErr ==
    /\ pc = "connect"
    /\ pc' = "failed"
    /\ exit' = "exit1"
    /\ stderr' = Append(stderr, "Error")
    /\ UNCHANGED <<users, seq, driver, requests, hist, pre, log, stdout,
                   users0>>

SpawnDriver ==
    /\ pc = "spawn"
    /\ driver' = "running"
    /\ pc' = "create"
    /\ UNCHANGED <<users, seq, requests, hist, pre, log, stdout, stderr, exit,
                   users0>>

\* main calls a repository function: the statement is sent.
MainIssue(req) ==
    /\ \A r \in requests : r.op # req.op
    /\ Issue(req)
    /\ log' = Append(log, [ev |-> "issue", op |-> req.op])
    /\ UNCHANGED <<users, seq, driver, pc, hist, stdout, stderr, exit, users0>>

\* Variant: `.await` without `?`: main goes on whatever the result.
MainAwaitIgnoreErr(op, okpc) ==
    \E r \in requests :
        /\ r.op = op
        /\ \E out \in Outcome(r) :
            /\ requests' = requests \ {r}
            /\ hist' = Append(hist, Call(r, out))
            /\ log' = Append(log, [ev |-> "return", op |-> op])
            /\ pc' = okpc
            /\ exit' = IF okpc = "done" THEN "exit0" ELSE exit
            /\ stderr' = stderr
        /\ UNCHANGED <<users, seq, driver, pre, stdout, users0>>

\* `.await?` on the call: Ok goes on to okpc, Err makes main return it.
MainAwait(op, okpc) ==
    \E r \in requests :
        /\ r.op = op
        /\ \E out \in Outcome(r) :
            /\ requests' = requests \ {r}
            /\ hist' = Append(hist, Call(r, out))
            /\ log' = Append(log, [ev |-> "return", op |-> op])
            /\ IF out.status = "Ok"
               THEN /\ pc' = okpc
                    /\ exit' = IF okpc = "done" THEN "exit0" ELSE exit
                    /\ stderr' = stderr
               ELSE /\ pc' = "failed"
                    /\ exit' = "exit1"
                    /\ stderr' = Append(stderr, "Error")
        /\ UNCHANGED <<users, seq, driver, pre, stdout, users0>>

\* Variant: create_user is started and not awaited.
MainCreateDetached ==
    /\ pc = "create"
    /\ pc' = "list"
    /\ Issue(create_user_req(DemoName, DemoAge))
    /\ log' = Append(log, [ev |-> "issue", op |-> "create_user"])
    /\ UNCHANGED <<users, seq, driver, hist, stdout, stderr, exit, users0>>

MainCreate ==
    /\ pc = "create"
    /\ \/ MainIssue(create_user_req(DemoName, DemoAge))
       \/ MainAwait("create_user", "list")

MainList ==
    /\ pc = "list"
    /\ \/ MainIssue(read_users_req)
       \/ MainAwait("read_users", "print")

\* for user in &users { println!(...) }
MainPrint ==
    /\ pc = "print"
    /\ stdout' = stdout \o
           [i \in 1..Len(hist[Len(hist)].val) |->
               [fmt |-> "user", row |-> <<hist[Len(hist)].val[i]>>]]
    /\ pc' = "get"
    /\ UNCHANGED <<users, seq, driver, requests, hist, pre, log, stderr, exit,
                   users0>>

MainGet ==
    /\ pc = "get"
    /\ \/ MainIssue(read_user_by_id_req(DemoId))
       \/ MainAwait("read_user_by_id", "report")

\* if let Some(..) = .. { println!("Fetched by ID ..") } else { println!(..) }
MainReport ==
    /\ pc = "report"
    /\ stdout' = Append(stdout,
           IF hist[Len(hist)].val # <<>>
           THEN [fmt |-> "fetched", row |-> hist[Len(hist)].val]
           ELSE [fmt |-> "notfound", row |-> <<>>])
    /\ pc' = "update"
    /\ UNCHANGED <<users, seq, driver, requests, hist, pre, log, stderr, exit,
                   users0>>

\* Variant: the call site passes (new_age, id) for (id, new_age).
MainUpdateArgsSwapped ==
    /\ pc = "update"
    /\ \/ MainIssue(update_user_age_req(DemoNewAge, DemoId))
       \/ MainAwait("update_user_age", "delete")

MainUpdate ==
    /\ pc = "update"
    /\ \/ MainIssue(update_user_age_req(DemoId, DemoNewAge))
       \/ MainAwait("update_user_age", "delete")

MainDelete ==
    /\ pc = "delete"
    /\ \/ MainIssue(delete_user_req(DemoId))
       \/ MainAwait("delete_user", "done")

\* ------------------------------------------------------------- free caller

ArgIds == SeedIds

RepoRequests ==
    {create_user_req(n, a) : n \in Names, a \in Ages}
        \cup {read_users_req}
        \cup {read_user_by_id_req(i) : i \in ArgIds}
        \cup {update_user_age_req(i, a) : i \in ArgIds, a \in Ages}
        \cup {delete_user_req(i) : i \in ArgIds}

\* The caller issues any call once the previous one has returned; it stops
\* after a closed-connection error.
RepoCall ==
    /\ pc = "repo"
    /\ requests = {}
    /\ Len(hist) < MaxCalls
    /\ hist # <<>> => hist[Len(hist)].err # "closed"
    /\ \E req \in RepoRequests :
        /\ req.stmt = "insert" => seq <= MaxId + 1
        /\ Issue(req)
    /\ UNCHANGED <<users, seq, driver, pc, hist, log, stdout, stderr, exit,
                   users0>>

RepoReturn ==
    /\ pc = "repo"
    /\ \E r \in requests :
        \E out \in Outcome(r) :
            /\ requests' = requests \ {r}
            /\ hist' = Append(hist, Call(r, out))
    /\ UNCHANGED <<users, seq, driver, pc, pre, log, stdout, stderr, exit,
                   users0>>

\* ---------------------------------------------------------- specifications

InitDb ==
    /\ users \in Tables
    /\ users0 = users
    /\ seq \in {1, MaxId + 1}
    /\ requests = {}
    /\ hist = <<>>
    /\ pre = users
    /\ log = <<>>
    /\ stdout = <<>>
    /\ stderr = <<>>
    /\ exit = "running"

Init ==
    /\ InitDb
    /\ driver = "unspawned"
    /\ pc = "connect"

Next ==
    \/ ConnectOk
    \/ ConnectErr
    \/ SpawnDriver
    \/ MainCreate
    \/ MainList
    \/ MainPrint
    \/ MainGet
    \/ MainReport
    \/ MainUpdate
    \/ MainDelete
    \/ Exec
    \/ DriverFail

Spec == Init /\ [][Next]_vars

InitRepo ==
    /\ InitDb
    /\ driver = "running"
    /\ pc = "repo"

NextRepo ==
    \/ RepoCall
    \/ RepoReturn
    \/ Exec
    \/ DriverFail

SpecRepo == InitRepo /\ [][NextRepo]_vars

\* ------------------------------------------------------------- properties

\* What GetUserByID(id) and ListUsers() can return on table t over a live
\* connection.
GetUserByID(t, id) ==
    {read_user_by_id_ret(res.reply) : res \in SelectByIdStmt(t, 0, id)}

ListUsers(t) == {read_users_ret(res.reply) : res \in SelectAllStmt(t, 0)}

\* The call that returned last.  A call's record never changes once written,
\* so what holds of the latest call in every state holds of every call.
Calls == IF hist = <<>> THEN {} ELSE {hist[Len(hist)]}

\* C1: after a create_user(name, age) that returned Ok, the table is the
\* table before the call plus exactly one row carrying that name and age
\* under an id no row had before, and every ListUsers() result holds
\* exactly the entries of a result before the call plus that row.
C1_CreateThenList ==
    \A c \in Calls :
        (c.op = "create_user" /\ c.status = "Ok") =>
            \E row \in c.post :
                /\ row.name = c.args.name
                /\ row.age = c.args.age
                /\ row.id \notin IdsOf(c.pre)
                /\ c.post = c.pre \cup {row}
                /\ \A b \in ListUsers(c.pre), a \in ListUsers(c.post) :
                    /\ a.status = "Ok"
                    /\ Range(a.val) = Range(b.val) \cup {row}
                    /\ Len(a.val) = Len(b.val) + 1

C1_Witness ==
    \E c \in Calls :
        /\ c.op = "create_user"
        /\ c.status = "Ok"
        /\ c.pre # {}
        /\ c.post # c.pre

\* C2: after an update_user_age(X, a) that returned Ok on an existing id X,
\* GetUserByID(X) returns (X, original name, a), every row with another id
\* is unchanged and the set of ids is the same.
C2_UpdateChangesOnlyAge ==
    \A c \in Calls :
        (c.op = "update_user_age" /\ c.status = "Ok"
            /\ c.args.id \in IdsOf(c.pre)) =>
            /\ \A old \in c.pre :
                old.id = c.args.id =>
                    GetUserByID(c.post, c.args.id) =
                        {Ok(<<Row(c.args.id, old.name, c.args.age)>>)}
            /\ {r \in c.post : r.id # c.args.id} =
                   {r \in c.pre : r.id # c.args.id}
            /\ IdsOf(c.post) = IdsOf(c.pre)

C2_Witness ==
    \E c \in Calls :
        /\ c.op = "update_user_age"
        /\ c.status = "Ok"
        /\ \E old \in c.pre : old.id = c.args.id /\ old.age # c.args.age
        /\ \E r \in c.pre : r.id # c.args.id

\* C3: after a delete_user(X) that returned Ok on an existing id X,
\* GetUserByID(X) returns None, ListUsers() returns one entry fewer than
\* before, and every row with another id is still there, unchanged.
C3_DeleteRemovesOneRow ==
    \A c \in Calls :
        (c.op = "delete_user" /\ c.status = "Ok"
            /\ c.args.id \in IdsOf(c.pre)) =>
            /\ GetUserByID(c.post, c.args.id) = {Ok(<<>>)}
            /\ \A b \in ListUsers(c.pre), a \in ListUsers(c.post) :
                Len(a.val) = Len(b.val) - 1
            /\ c.post = {r \in c.pre : r.id # c.args.id}

C3_Witness ==
    \E c \in Calls :
        /\ c.op = "delete_user"
        /\ c.status = "Ok"
        /\ c.args.id \in IdsOf(c.pre)
        /\ \E r \in c.pre : r.id # c.args.id

\* C4: read_user_by_id(id) for an id with no row (never created, or
\* deleted) returns Ok(None), not an error, unless the connection failed.
C4_GetAbsentIsNone ==
    \A c \in Calls :
        (c.op = "read_user_by_id" /\ c.args.id \notin IdsOf(c.pre)
            /\ c.err # "closed") =>
            /\ c.status = "Ok"
            /\ c.val = <<>>

\* A row is deleted and then looked up.
C4_Witness ==
    /\ Len(hist) = 2
    /\ hist[1].op = "delete_user"
    /\ hist[1].status = "Ok"
    /\ hist[1].args.id \in IdsOf(hist[1].pre)
    /\ hist[2].op = "read_user_by_id"
    /\ hist[2].args.id = hist[1].args.id
    /\ hist[2].status = "Ok"
    /\ hist[2].val = <<>>

\* C5: update_user_age(id, new_age) for an id with no row leaves the table
\* exactly as it was, and returns Ok unless the connection failed.
C5_UpdateMissingIsNoOp ==
    \A c \in Calls :
        (c.op = "update_user_age" /\ c.args.id \notin IdsOf(c.pre)) =>
            /\ c.post = c.pre
            /\ c.err # "closed" => c.status = "Ok"

C5_Witness ==
    \E c \in Calls :
        /\ c.op = "update_user_age"
        /\ c.args.id \notin IdsOf(c.pre)
        /\ c.status = "Ok"
        /\ \E r \in c.pre : r.age # c.args.age

\* C6: a second delete_user(X) right after a first that returned Ok leaves
\* the table as the first left it, and returns Ok again unless the
\* connection failed.
C6_DeleteIdempotent ==
    \A k \in 1..(Len(hist) - 1) :
        (hist[k].op = "delete_user" /\ hist[k].status = "Ok"
            /\ hist[k + 1].op = "delete_user"
            /\ hist[k + 1].args.id = hist[k].args.id) =>
            /\ hist[k + 1].post = hist[k].post
            /\ hist[k + 1].err # "closed" => hist[k + 1].status = "Ok"

C6_Witness ==
    \E k \in 1..(Len(hist) - 1) :
        /\ hist[k].op = "delete_user"
        /\ hist[k].status = "Ok"
        /\ hist[k].args.id \in IdsOf(hist[k].pre)
        /\ hist[k + 1].op = "delete_user"
        /\ hist[k + 1].args.id = hist[k].args.id
        /\ hist[k + 1].status = "Ok"
        /\ hist[k + 1].post # {}

\* The order of main's calls, and the call made at each position of main.
DemoOrder ==
    <<"create_user", "read_users", "read_user_by_id", "update_user_age",
      "delete_user">>

OpAt(p) ==
    CASE p = "create" -> "create_user"
      [] p = "list" -> "read_users"
      [] p = "get" -> "read_user_by_id"
      [] p = "update" -> "update_user_age"
      [] p = "delete" -> "delete_user"
      [] OTHER -> "none"

\* The table a call of main's sequence found.
Found(k) == IF k = 1 THEN users0 ELSE hist[k - 1].post

\* What a call of main's sequence that returned Ok did to the table.
Committed(c) ==
    CASE c.op = "create_user" ->
            \E row \in c.post :
                /\ row.id \notin IdsOf(c.pre)
                /\ row.name = DemoName
                /\ row.age = DemoAge
                /\ c.post = c.pre \cup {row}
      [] c.op = "update_user_age" ->
            c.post = {IF r.id = DemoId THEN Row(r.id, r.name, DemoNewAge)
                      ELSE r : r \in c.pre}
      [] c.op = "delete_user" -> c.post = {r \in c.pre : r.id # DemoId}
      [] OTHER -> c.post = c.pre

\* C7: main is fail-fast.  A failed connect or call is the last thing main
\* does: nothing is in flight or issued after it and the process ends with
\* a failure status and an error line.  What the calls before it did stays
\* in the table.  The process ends with status 0 only after the connection
\* and all five calls succeeded.
C7_FailFast ==
    /\ \A k \in 1..Len(hist) :
        hist[k].status = "Err" => (k = Len(hist) /\ pc = "failed")
    /\ pc = "failed" <=> exit = "exit1"
    /\ pc = "done" <=> exit = "exit0"
    /\ pc = "failed" =>
        /\ requests = {}
        /\ stderr # <<>> /\ stderr[Len(stderr)] = "Error"
        /\ hist # <<>> => hist[Len(hist)].status = "Err"
        /\ hist = <<>> => (log = <<>> /\ driver = "unspawned")
        /\ Len(log) = 2 * Len(hist)
    /\ exit # "running" =>
        /\ users = Found(Len(hist) + 1)
        /\ \A k \in 1..Len(hist) :
            /\ hist[k].pre = Found(k)
            /\ hist[k].status = "Ok" => Committed(hist[k])
    /\ exit = "exit0" =>
        /\ driver # "unspawned"
        /\ Len(hist) = 5
        /\ \A k \in 1..5 : hist[k].op = DemoOrder[k] /\ hist[k].status = "Ok"

\* The fourth call failed and the row created by the first is still there.
C7_Witness ==
    /\ exit = "exit1"
    /\ Len(hist) = 4
    /\ hist[4].status = "Err"
    /\ hist[1].post # hist[1].pre
    /\ hist[1].post \subseteq users

C9_EndToEnd ==
    DemoId \in IdsOf(users0) =>
        \A k \in 1..Len(hist) :
            /\ hist[k].op = DemoOrder[k]
            /\ hist[k].status = "Ok" =>
                /\ k = 2 => \E i \in 1..Len(hist[k].val) :
                                /\ hist[k].val[i].name = DemoName
                                /\ hist[k].val[i].age = DemoAge
                /\ k = 3 => /\ hist[k].val # <<>>
                            /\ hist[k].val[1].id = DemoId
                /\ k = 4 => \A g \in GetUserByID(hist[k].post, DemoId) :
                                /\ g.status = "Ok"
                                /\ g.val # <<>>
                                /\ g.val[1].id = DemoId
                                /\ g.val[1].age = DemoNewAge
                /\ k = 5 => GetUserByID(hist[k].post, DemoId) = {Ok(<<>>)}

\* The whole demo ran from a table whose row 1 had another age.
C9_Witness ==
    /\ exit = "exit0"
    /\ \E r \in users0 : r.id = DemoId /\ r.age # DemoNewAge

\* C10: main issues its calls one at a time in the order create, list,
\* get, update, delete, after the connection task is spawned: at most one
\* request is in flight, it is the call at main's position, a call is
\* issued only after the previous one returned Ok, and each call finds the
\* table as the previous call left it.
C10_Sequential ==
    /\ Cardinality(requests) <= 1
    /\ \A r \in requests : r.op = OpAt(pc)
    /\ (requests # {} \/ log # <<>>) => driver # "unspawned"
    /\ Len(log) <= 2 * Len(DemoOrder)
    /\ \A i \in 1..Len(log) :
        /\ log[i].op = DemoOrder[(i + 1) \div 2]
        /\ log[i].ev = IF i % 2 = 1 THEN "issue" ELSE "return"
        /\ (i % 2 = 1 /\ i > 1) =>
            /\ Len(hist) >= (i - 1) \div 2
            /\ hist[(i - 1) \div 2].status = "Ok"
    /\ Len(hist) = Len(log) \div 2
    /\ requests # {} <=> Len(log) % 2 = 1
    /\ \A k \in 1..Len(hist) : hist[k].pre = Found(k)
    /\ \A r \in requests : pre = Found(Len(hist) + 1)
    /\ \A r \in requests : r.st = "sent" => users = pre

\* All five calls were issued and returned.
C10_Witness ==
    /\ Len(log) = 2 * Len(DemoOrder)
    /\ exit = "exit0"
    /\ users # users0

====
